---- MODULE Spec2Model ----
(***************************************************************************)
(* A model of src/cargo/sources/git/utils.rs: GitRemote (checkout, db_at,  *)
(* rev_for), GitDatabase (copy_to, rev_for, has_ref), GitCheckout          *)
(* (clone_into, is_fresh, fetch, reset, update_submodules), the shared     *)
(* fetch primitive and with_authentication.                                *)
(*                                                                         *)
(* The world is one remote repository U (branch master, three tags), one   *)
(* cache path, one destination path, and two submodule repositories S      *)
(* (declared by U's commits) and N (declared by S's commits).              *)
(***************************************************************************)
EXTENDS Naturals, Sequences, FiniteSets, TLC

VARIABLES
    upstream,   \* the commit U's refs/heads/master points at
    cache,      \* what the cache path holds (the GitDatabase's bare repository)
    dest,       \* what the destination path holds (the GitCheckout's repository)
    last,       \* the outcome of the last call made
    auth,       \* one with_authentication call: its locals and the transport's challenges
    scen,       \* how far the calls made so far follow the update scenario
    walk,       \* one run of update_submodules, step by step: its stack of loops
    par         \* two calls running at once, step by step, and the paths they work on

vars == <<upstream, cache, dest, last, auth, scen, walk, par>>

(***************************************************************************)
(* Bounds                                                                  *)
(***************************************************************************)
MaxChallenges == 3

(***************************************************************************)
(* Objects. git2::Oid values are named by strings. c2 is a child of c1,    *)
(* c3 is unrelated history (a forced push), x is a commit of a foreign     *)
(* repository. t1 is an annotated tag object on c1, t2 an annotated tag    *)
(* object on t1.                                                           *)
(***************************************************************************)
NoOid == "none"
UpCommits == {"c1", "c2", "c3"}
Commits == UpCommits \cup {"x"}
TagObjs == {"t1", "t2"}
Objs == Commits \cup TagObjs

TagTarget(t) == IF t = "t1" THEN "c1" ELSE "t1"
Parents(c) == IF c = "c2" THEN {"c1"} ELSE {}

RECURSIVE Closure(_)
Closure(o) ==
    {o} \cup (IF o \in TagObjs THEN Closure(TagTarget(o))
              ELSE UNION {Closure(p) : p \in Parents(o)})

\* git_tag_peel / git_object_peel to a commit: follow tag objects to their target.
RECURSIVE Peel(_)
Peel(o) == IF o \in TagObjs THEN Peel(TagTarget(o)) ELSE o

\* Oid::to_string / GitRevision::to_string (Show for GitRevision): the hex form.
Hex(o) == <<"hex", o>>

\* U's tags: v1 and vv are annotated (vv nested), lw is lightweight.
TagNames == {"v1", "vv", "lw"}
UpTags == [n \in TagNames |-> CASE n = "v1" -> "t1" [] n = "vv" -> "t2" [] OTHER -> "c1"]
NoTags == [n \in {} |-> NoOid]

(***************************************************************************)
(* What a path holds.                                                      *)
(***************************************************************************)
Absent == [kind |-> "absent"]
Junk == [kind |-> "junk"]
\* git2::Repository::init_bare: HEAD -> refs/heads/master, no refs, no objects.
EmptyBare == [kind |-> "repo", master |-> NoOid, tags |-> NoTags, objs |-> {}]
UpRepo == [kind |-> "repo", master |-> upstream, tags |-> UpTags,
           objs |-> UpCommits \cup TagObjs]

\* git2::Repository::open
CanOpen(p) == p.kind = "repo"

RefTargets(r) == (IF r.master # NoOid THEN {r.master} ELSE {})
                 \cup {r.tags[n] : n \in DOMAIN r.tags}
RefClosure(r) == UNION {Closure(o) : o \in RefTargets(r)}

(***************************************************************************)
(* Errors are chains of frames, outermost first (util::ChainError).        *)
(***************************************************************************)
human(parts) == [class |-> "human", msg |-> parts]
internal(parts) == [class |-> "internal", msg |-> parts]
GitErr(what) == [class |-> "git2", msg |-> <<what>>]
chain_error(frame, cause) == <<frame>> \o cause

Ok(v) == [ok |-> TRUE, val |-> v]
Err(e) == [ok |-> FALSE, err |-> e]

(***************************************************************************)
(* fetch (lines 393-406): remote.fetch of "refs/tags/*:refs/tags/*" and    *)
(* the caller's "refs/heads/*:refs/heads/*", inside with_authentication.   *)
(* libgit2 writes every matching ref (it does not refuse non-fast-forward  *)
(* updates) and keeps the objects it already has.                          *)
(***************************************************************************)
NetFetch(on, url) == [op |-> "fetch", on |-> on, url |-> url, auth |-> TRUE]
\* git2::Repository::clone called directly (lines 258 and 324): no credentials callback.
NetClone(on, url) == [op |-> "clone", on |-> on, url |-> url, auth |-> FALSE]

\* a fetch that keeps only the objects that the fetched refs reach
fetch_pruning(dst, src) ==
    [dst EXCEPT !.master = IF src.master # NoOid THEN src.master ELSE @,
                !.tags = [n \in DOMAIN @ \cup DOMAIN src.tags |->
                            IF n \in DOMAIN src.tags THEN src.tags[n] ELSE @[n]],
                !.objs = RefClosure(src)]

fetch(dst, src) ==
    [dst EXCEPT !.master = IF src.master # NoOid THEN src.master ELSE @,
                !.tags = [n \in DOMAIN @ \cup DOMAIN src.tags |->
                            IF n \in DOMAIN src.tags THEN src.tags[n] ELSE @[n]],
                !.objs = @ \cup RefClosure(src)]

(***************************************************************************)
(* An injected failure: the environment makes step `step` at nesting level *)
(* `lvl` fail (0: the call's own repository, k: a submodule at depth k).   *)
(* A call's outcome is a record: fs (what the path holds afterwards),      *)
(* failed (the step that failed, or "none"), injected (whether that        *)
(* failure was the environment's), steps (the steps attempted, in order)   *)
(* and net (the operations that contacted a URL, in order).                *)
(***************************************************************************)
NoFail == [lvl |-> 0, step |-> "none"]
Fails(inj, lvl, step) == inj.lvl = lvl /\ inj.step = step
St(lvl, ev) == [lvl |-> lvl, ev |-> ev]
Done(fs) == [fs |-> fs, failed |-> "none", injected |-> FALSE, steps |-> <<>>, net |-> <<>>]
Failed(fs, step, injected) ==
    [fs |-> fs, failed |-> step, injected |-> injected, steps |-> <<>>, net |-> <<>>]
\* r, preceded by the steps and network operations already made
After(steps, net, r) == [r EXCEPT !.steps = steps \o @, !.net = net \o @]

(***************************************************************************)
(* GitRemote                                                               *)
(***************************************************************************)
\* GitRemote::fetch_into
fetch_into(repo, inj) ==
    After(<<St(0, "fetch")>>, <<NetFetch("db", "U")>>,
          IF Fails(inj, 0, "fetch") THEN Failed(repo, "fetch", TRUE)
          ELSE Done(fetch(repo, UpRepo)))

\* GitRemote::clone_into
GitRemote_clone_into(dst, inj) ==
    LET exists == dst.kind # "absent"
        pre == IF exists THEN <<St(0, "rmdir")>> ELSE <<>>
    IN  IF exists /\ Fails(inj, 0, "rmdir")
        THEN After(pre, <<>>, Failed(dst, "rmdir", TRUE))
        ELSE IF Fails(inj, 0, "mkdir")
        THEN After(pre \o <<St(0, "mkdir")>>, <<>>, Failed(Absent, "mkdir", TRUE))
        ELSE IF Fails(inj, 0, "init")
        THEN After(pre \o <<St(0, "mkdir"), St(0, "init")>>, <<>>,
                   Failed(Junk, "init", TRUE))
        ELSE After(pre \o <<St(0, "mkdir"), St(0, "init")>>, <<>>,
                   fetch_into(EmptyBare, inj))

\* a checkout that never takes the fetch path
checkout_always_clones(into, inj) ==
    LET r == After(<<St(0, "open_err")>>, <<>>, GitRemote_clone_into(into, inj)) IN
    r @@ [err |-> IF r.failed = "none" THEN <<>>
                  ELSE chain_error(internal(<<"failed to clone into: ", "cache">>),
                                   <<GitErr(r.failed)>>)]

\* a checkout that clones anew when the fetch into an open repository fails
checkout_fetch_fallback(into, inj) ==
    LET f == After(<<St(0, "open_ok")>>, <<>>, fetch_into(into, inj))
        r == IF CanOpen(into) /\ f.failed = "none" THEN f
             ELSE IF CanOpen(into)
             THEN After(f.steps, f.net, GitRemote_clone_into(into, inj))
             ELSE After(<<St(0, "open_err")>>, <<>>, GitRemote_clone_into(into, inj))
    IN  r @@ [err |-> IF r.failed = "none" THEN <<>>
                      ELSE chain_error(internal(<<"failed to clone into: ", "cache">>),
                                       <<GitErr(r.failed)>>)]

\* GitRemote::checkout
checkout(into, inj) ==
    IF CanOpen(into)
    THEN LET r == After(<<St(0, "open_ok")>>, <<>>, fetch_into(into, inj)) IN
         r @@ [err |-> IF r.failed = "none" THEN <<>>
                       ELSE chain_error(internal(<<"failed to fetch into ", "cache">>),
                                        <<GitErr(r.failed)>>)]
    ELSE LET r == After(<<St(0, "open_err")>>, <<>>, GitRemote_clone_into(into, inj)) IN
         r @@ [err |-> IF r.failed = "none" THEN <<>>
                       ELSE chain_error(internal(<<"failed to clone into: ", "cache">>),
                                        <<GitErr(r.failed)>>)]

\* a db_at that brings the repository up to date as it opens it
db_at_fetching(path) ==
    IF CanOpen(path) THEN Done(fetch(path, UpRepo)) ELSE Failed(path, "open", FALSE)

\* GitRemote::db_at: open without fetching; the path is left as it is.
db_at(path) ==
    IF CanOpen(path) THEN Done(path) ELSE Failed(path, "open", FALSE)

(***************************************************************************)
(* GitDatabase::rev_for, has_ref                                           *)
(***************************************************************************)
Tag(s) == [t |-> "Tag", s |-> s]
Branch(s) == [t |-> "Branch", s |-> s]
Rev(s) == [t |-> "Rev", s |-> s]

\* Repository::revparse_single against a bare repository: a ref name, HEAD
\* (-> refs/heads/master) or an object id.
revparse_single(repo, expr) ==
    CASE expr = "HEAD" \/ expr = "master" ->
            IF repo.master # NoOid THEN Ok(repo.master) ELSE Err(<<GitErr("revparse")>>)
      [] expr \in DOMAIN repo.tags -> Ok(repo.tags[expr])
      [] expr \in repo.objs -> Ok(expr)
      [] OTHER -> Err(<<GitErr("revparse")>>)

\* Repository::refname_to_id("refs/tags/{s}")
refname_to_id(repo, s) ==
    IF s \in DOMAIN repo.tags THEN Ok(repo.tags[s]) ELSE Err(<<GitErr("refname_to_id")>>)

\* Repository::find_tag: the object must be a tag object.
find_tag(repo, id) ==
    IF id \in TagObjs /\ id \in repo.objs THEN Ok(id) ELSE Err(<<GitErr("find_tag")>>)

\* Repository::find_branch(s, Local) and Reference::target
find_branch(repo, s) ==
    IF s = "master" /\ repo.master # NoOid THEN Ok(repo.master)
    ELSE Err(<<GitErr("find_branch")>>)

rev_for_tag(repo, s) ==
    LET id == refname_to_id(repo, s) IN
    IF ~id.ok THEN Err(chain_error(human(<<"failed to find tag '", s, "'">>), id.err))
    ELSE LET tag == find_tag(repo, id.val) IN
         IF ~tag.ok THEN Err(chain_error(human(<<"failed to find tag '", s, "'">>), tag.err))
         ELSE Ok(Peel(tag.val))

\* a branch error that leaves the name out of its message
rev_for_branch_unnamed(repo, s) ==
    LET b == find_branch(repo, s) IN
    IF ~b.ok THEN Err(chain_error(human(<<"failed to find branch">>), b.err))
    ELSE Ok(b.val)

rev_for_branch(repo, s) ==
    LET b == find_branch(repo, s) IN
    IF ~b.ok THEN Err(chain_error(human(<<"failed to find branch '", s, "'">>), b.err))
    ELSE Ok(b.val)

\* GitDatabase::rev_for
rev_for(repo, reference) ==
    CASE reference.t = "Tag" -> rev_for_tag(repo, reference.s)
      [] reference.t = "Branch" -> rev_for_branch(repo, reference.s)
      [] OTHER -> revparse_single(repo, reference.s)

\* GitDatabase::has_ref
has_ref(repo, expr) ==
    LET r == revparse_single(repo, expr) IN IF r.ok THEN Ok(TRUE) ELSE Err(r.err)

\* GitRemote::rev_for: db_at, then GitDatabase::rev_for
GitRemote_rev_for(path, reference) ==
    LET db == db_at(path) IN
    IF db.failed # "none" THEN db @@ [res |-> Err(<<GitErr("open")>>)]
    ELSE db @@ [res |-> rev_for(db.fs, reference)]

(***************************************************************************)
(* Submodule declarations. Each commit's tree lists its submodule entries  *)
(* in order: the URL (S or N, or E, declared but never checked out         *)
(* upstream) and the recorded head commit (git_submodule_head_id).         *)
(* A working repository is [kind, head, objs, sub]: head is what HEAD      *)
(* resolves to (NoOid: unborn), sub is what the directory of its           *)
(* submodule holds.                                                        *)
(***************************************************************************)
Entry(url, head) == [name |-> url, url |-> url, head |-> head]
\* declarations in which N's commit n1 declares its ancestor S as its submodule
SubDecl_cyclic(commit) ==
    CASE commit = "c1" -> <<Entry("E", NoOid), Entry("S", "s1")>>
      [] commit = "c2" -> <<Entry("S", "s2")>>
      [] commit = "c3" -> <<Entry("S", NoOid)>>
      [] commit = "s1" -> <<Entry("N", "n1")>>
      [] commit = "s2" -> <<Entry("N", "n2")>>
      [] commit = "n1" -> <<Entry("S", "s1")>>
      [] OTHER -> <<>>

SubDecl(commit) ==
    CASE commit = "c1" -> <<Entry("E", NoOid), Entry("S", "s1")>>
      [] commit = "c2" -> <<Entry("S", "s2")>>
      [] commit = "c3" -> <<Entry("S", NoOid)>>
      [] commit = "s1" -> <<Entry("N", "n1")>>
      [] commit = "s2" -> <<Entry("N", "n2")>>
      [] OTHER -> <<>>
\* what HEAD of the submodule's own remote points at (the head of a new clone)
DefaultHead(url) == IF url = "S" THEN "s2" ELSE "n2"

WorkRepo(head, objs, sub) == [kind |-> "repo", head |-> head, objs |-> objs, sub |-> sub]

\* child.open().and_then(|repo| repo.head()) is Ok: a repository whose HEAD is born
head_and_repo(dir) == dir.kind = "repo" /\ dir.head # NoOid

\* a test that takes every submodule that opens for already correct
already_correct_if_open(child, dir) == head_and_repo(dir)

\* lines 315-319: the submodule opens and its head is the recorded commit
already_correct(child, dir) == head_and_repo(dir) /\ dir.head = child.head

RECURSIVE update_submodules(_, _, _)
RECURSIVE sync_children(_, _, _, _, _)

\* One round of the for loop of update_submodules (lines 295-338) for
\* entries[i], then the rest of the loop.
sync_children(repo, entries, i, lvl, inj) ==
    IF i > Len(entries) THEN Done(repo)
    ELSE
    LET child == entries[i]
        dir == repo.sub
        rest(r) == sync_children(r, entries, i + 1, lvl, inj)
        opened == head_and_repo(dir)
    IN
    IF Fails(inj, lvl, "init")
    THEN After(<<St(lvl, "init")>>, <<>>, Failed(repo, "init", TRUE))
    ELSE IF child.head = NoOid
    THEN After(<<St(lvl, "init"), St(lvl, "no_head")>>, <<>>, rest(repo))
    ELSE IF already_correct(child, dir)
    THEN After(<<St(lvl, "init"), St(lvl, "same_head")>>, <<>>, rest(repo))
    ELSE IF ~opened /\ dir.kind # "absent"
    THEN \* git_clone refuses a path that exists and is not an empty directory
         After(<<St(lvl, "init"), St(lvl, "clone")>>, <<>>, Failed(repo, "clone", FALSE))
    ELSE IF ~opened /\ Fails(inj, lvl, "clone")
    THEN After(<<St(lvl, "init"), St(lvl, "clone")>>, <<NetClone("submodule", child.url)>>,
               Failed(repo, "clone", TRUE))
    ELSE
    LET pre == IF opened THEN <<St(lvl, "init"), St(lvl, "reuse")>>
               ELSE <<St(lvl, "init"), St(lvl, "clone")>>
        prenet == IF opened THEN <<>> ELSE <<NetClone("submodule", child.url)>>
        sub1 == IF opened THEN dir ELSE WorkRepo(DefaultHead(child.url), {}, Absent)
        \* the fetch writes refs/heads/master, which the submodule's HEAD names
        sub1f == [sub1 EXCEPT !.head = DefaultHead(child.url)]
        sub2 == [sub1f EXCEPT !.head = child.head]
        inner == update_submodules(sub2, lvl + 1, inj)
    IN
    IF Fails(inj, lvl, "fetch")
    THEN After(pre \o <<St(lvl, "fetch")>>, prenet \o <<NetFetch("submodule", child.url)>>,
               Failed([repo EXCEPT !.sub = sub1], "fetch", TRUE))
    ELSE IF Fails(inj, lvl, "reset")
    THEN After(pre \o <<St(lvl, "fetch"), St(lvl, "reset")>>,
               prenet \o <<NetFetch("submodule", child.url)>>,
               Failed([repo EXCEPT !.sub = sub1f], "reset", TRUE))
    ELSE After(pre \o <<St(lvl, "fetch"), St(lvl, "reset"), St(lvl, "recurse")>>,
               prenet \o <<NetFetch("submodule", child.url)>>,
               IF inner.failed # "none"
               THEN [inner EXCEPT !.fs = [repo EXCEPT !.sub = inner.fs]]
               ELSE After(inner.steps, inner.net, rest([repo EXCEPT !.sub = inner.fs])))

\* the inner fn update_submodules(repo) (lines 292-340); lvl is the depth of
\* repo's submodules below the checkout
update_submodules(repo, lvl, inj) ==
    IF Fails(inj, lvl, "submodules")
    THEN After(<<St(lvl, "submodules")>>, <<>>, Failed(repo, "submodules", TRUE))
    ELSE After(<<St(lvl, "submodules")>>, <<>>,
               sync_children(repo, SubDecl(repo.head), 1, lvl, inj))

(***************************************************************************)
(* GitCheckout                                                             *)
(***************************************************************************)
\* an is_fresh that takes a HEAD that does not resolve for fresh
is_fresh_lenient(repo, revision) ==
    IF repo.head # NoOid THEN Hex(repo.head) = Hex(revision) ELSE TRUE

\* an is_fresh that compares the hex form of HEAD with the raw id
is_fresh_never(repo, revision) ==
    IF repo.head # NoOid THEN Hex(repo.head) = revision ELSE FALSE

\* GitCheckout::is_fresh: a HEAD that does not resolve is not fresh
is_fresh(repo, revision) ==
    IF repo.head # NoOid THEN Hex(repo.head) = Hex(revision) ELSE FALSE

\* a fetch that runs on the database's repository instead of the checkout's
GitCheckout_fetch_into_db(repo, db, inj) ==
    After(<<St(0, "fetch")>>, <<NetFetch("db", "file:db")>>,
          IF Fails(inj, 0, "fetch") THEN Failed(repo, "fetch", TRUE)
          ELSE Done(repo))

\* GitCheckout::fetch: fetch from the database's path into the checkout; the
\* checkout's HEAD is refs/heads/master, which the refspec writes
GitCheckout_fetch(repo, db, inj) ==
    After(<<St(0, "fetch")>>, <<NetFetch("checkout", "file:db")>>,
          IF Fails(inj, 0, "fetch") THEN Failed(repo, "fetch", TRUE)
          ELSE Done([repo EXCEPT !.head = IF db.master # NoOid THEN db.master ELSE @,
                                 !.objs = @ \cup RefClosure(db)]))

\* GitCheckout::reset: find_object, then a hard reset, which peels a tag
\* object to its commit
reset(repo, revision, inj) ==
    After(<<St(0, "reset")>>, <<>>,
          IF revision \notin repo.objs THEN Failed(repo, "reset", FALSE)
          ELSE IF Fails(inj, 0, "reset") THEN Failed(repo, "reset", TRUE)
          ELSE Done([repo EXCEPT !.head = Peel(revision)]))

\* GitCheckout::clone_repo: a clone of the database's path. libgit2's local
\* transport packs what every advertised ref reaches, tags included.
clone_repo(db, into, inj) ==
    LET exists == into.kind # "absent"
        pre == <<St(0, "mkdir")>> \o (IF exists THEN <<St(0, "rmdir")>> ELSE <<>>)
    IN  IF Fails(inj, 0, "mkdir")
        THEN After(<<St(0, "mkdir")>>, <<>>, Failed(into, "mkdir", TRUE))
        ELSE IF exists /\ Fails(inj, 0, "rmdir")
        THEN After(pre, <<>>, Failed(into, "rmdir", TRUE))
        ELSE IF Fails(inj, 0, "clone")
        THEN After(pre \o <<St(0, "clone")>>, <<NetClone("checkout", "file:db")>>,
                   Failed(Absent, "clone", TRUE))
        ELSE After(pre \o <<St(0, "clone")>>, <<NetClone("checkout", "file:db")>>,
                   Done(WorkRepo(db.master, RefClosure(db), Absent)))

\* GitCheckout::clone_into
GitCheckout_clone_into(db, into, revision, inj) ==
    LET c == clone_repo(db, into, inj) IN
    IF c.failed # "none" THEN c
    ELSE After(c.steps, c.net, reset(c.fs, revision, inj))

(***************************************************************************)
(* GitDatabase::copy_to                                                    *)
(***************************************************************************)
copy_to_checkout(db, revision, into, inj) ==
    IF CanOpen(into)
    THEN IF is_fresh(into, revision)
         THEN After(<<St(0, "open_ok"), St(0, "fresh")>>, <<>>, Done(into))
         ELSE LET f == After(<<St(0, "open_ok"),
                               St(0, IF into.head = NoOid THEN "no_head" ELSE "stale")>>,
                             <<>>, GitCheckout_fetch(into, db, inj))
                  r == After(f.steps, f.net, reset(f.fs, revision, inj))
              IN  IF f.failed # "none" THEN f
                  ELSE IF r.failed # "none" THEN r
                  ELSE IF is_fresh(r.fs, revision)
                  THEN After(r.steps \o <<St(0, "assert")>>, r.net, Done(r.fs))
                  ELSE \* assert!(checkout.is_fresh()) panics
                       After(r.steps \o <<St(0, "assert")>>, r.net,
                             Failed(r.fs, "assert", FALSE))
    ELSE After(<<St(0, "open_err")>>, <<>>,
               GitCheckout_clone_into(db, into, revision, inj))

\* a copy_to that leaves the submodules of a fresh checkout alone
copy_to_fresh_returns(db, revision, into, inj) ==
    LET c == copy_to_checkout(db, revision, into, inj)
        s == After(c.steps, c.net, update_submodules(c.fs, 1, inj))
    IN  IF c.failed # "none" THEN c @@ [err |-> <<GitErr(c.failed)>>]
        ELSE IF CanOpen(into) /\ is_fresh(into, revision) THEN c @@ [err |-> <<>>]
        ELSE IF s.failed # "none"
        THEN s @@ [err |-> chain_error(internal(<<"failed to update submodules">>),
                                       <<GitErr(s.failed)>>)]
        ELSE s @@ [err |-> <<>>]

\* GitDatabase::copy_to: the checkout, then its submodules
copy_to(db, revision, into, inj) ==
    LET c == copy_to_checkout(db, revision, into, inj)
        s == After(c.steps, c.net, update_submodules(c.fs, 1, inj))
    IN  IF c.failed # "none" THEN c @@ [err |-> <<GitErr(c.failed)>>]
        ELSE IF s.failed # "none"
        THEN s @@ [err |-> chain_error(internal(<<"failed to update submodules">>),
                                       <<GitErr(s.failed)>>)]
        ELSE s @@ [err |-> <<>>]

(***************************************************************************)
(* The calls a client makes, and the environment's move of U's master.     *)
(***************************************************************************)
References ==
    {Tag(s) : s \in TagNames \cup {"nope"}}
    \cup {Branch(s) : s \in {"master", "nope"}}
    \cup {Rev(s) : s \in {"HEAD", "v1", "c2", "zz"}}
\* the GitRevision values a client can hold: a commit, or (from Rev("v1")) a tag object
Revisions == UpCommits \cup {"t1"}
FailSteps == {"rmdir", "mkdir", "init", "clone", "fetch", "reset", "submodules"}
\* the failures the environment can inject into a call whose unfailed run is r:
\* any one of the steps that run takes
Failures(r) ==
    {NoFail} \cup {[lvl |-> r.steps[i].lvl, step |-> r.steps[i].ev] :
                     i \in {j \in DOMAIN r.steps : r.steps[j].ev \in FailSteps}}

\* The record of a call: repeat tells that the call before it was the same
\* call and returned Ok; clean tells that the call, made in the state it was
\* made in, returns Ok when the environment fails no step; retry tells that
\* the call before it was the same call, that the environment failed a step
\* of it, and that it was clean.
NoCall == [op |-> "none", arg |-> NoOid, failed |-> "none",
           injected |-> FALSE, steps |-> <<>>, net |-> <<>>, err |-> <<>>,
           res |-> Err(<<>>), repeat |-> FALSE, clean |-> TRUE, retry |-> FALSE]
Call(op, arg, r, res) ==
    [op |-> op, arg |-> arg, failed |-> r.failed, injected |-> r.injected,
     steps |-> r.steps, net |-> r.net, err |-> r.err, res |-> res,
     repeat |-> last.op = op /\ last.arg = arg /\ last.failed = "none",
     clean |-> r.clean,
     retry |-> last.op = op /\ last.arg = arg /\ last.injected /\ last.clean]

AuthIdle == [pc |-> "idle"]
WalkIdle == [pc |-> "idle", stack |-> <<>>]
ParIdle == [pc |-> "idle"]

UpstreamMove(c) ==
    /\ c # upstream
    /\ upstream' = c
    /\ UNCHANGED <<cache, dest, last, auth, walk, par>>

Checkout ==
    \E inj \in Failures(checkout(cache, NoFail)) :
        LET r == checkout(cache, inj)
                 @@ [clean |-> checkout(cache, NoFail).failed = "none"] IN
        /\ cache' = r.fs
        /\ last' = Call("checkout", NoOid, r, Err(<<>>))
        /\ UNCHANGED <<upstream, dest, auth, walk, par>>

RevFor(reference) ==
    LET r == GitRemote_rev_for(cache, reference) IN
    /\ cache' = r.fs
    /\ last' = Call("rev_for", reference, r @@ [err |-> <<>>, clean |-> TRUE], r.res)
    /\ UNCHANGED <<upstream, dest, auth, walk, par>>

HasRef(expr) ==
    /\ CanOpen(cache)
    /\ last' = Call("has_ref", Rev(expr), Done(cache) @@ [err |-> <<>>, clean |-> TRUE],
                    has_ref(cache, expr))
    /\ UNCHANGED <<upstream, cache, dest, auth, walk, par>>

\* copy_to is a method of a GitDatabase, which exists once the cache path opens
CopyTo(revision) ==
    /\ CanOpen(cache)
    /\ \E inj \in Failures(copy_to(cache, revision, dest, NoFail)) :
          LET r == copy_to(cache, revision, dest, inj)
                   @@ [clean |-> copy_to(cache, revision, dest, NoFail).failed = "none"] IN
          /\ dest' = r.fs
          /\ last' = Call("copy_to", revision, r, Err(<<>>))
    /\ UNCHANGED <<upstream, cache, auth, walk, par>>

InitDest ==
    {Absent, Junk, WorkRepo(NoOid, {}, Absent), WorkRepo("x", {}, Absent),
     WorkRepo("x", {}, Junk)}

Init ==
    /\ upstream \in UpCommits
    /\ cache \in {Absent, Junk}
    /\ dest \in InitDest
    /\ last = NoCall
    /\ auth = AuthIdle
    /\ scen = "off"
    /\ walk = WalkIdle
    /\ par = ParIdle

Next ==
    /\ \/ \E c \in UpCommits : UpstreamMove(c)
       \/ Checkout
       \/ \E revision \in Revisions : CopyTo(revision)
    /\ UNCHANGED scen

Spec == Init /\ [][Next]_vars

(***************************************************************************)
(* Reference resolution against the cache, between checkouts.              *)
(***************************************************************************)
InitResolve ==
    /\ upstream \in UpCommits
    /\ cache \in {Absent, Junk}
    /\ dest = Absent
    /\ last = NoCall
    /\ auth = AuthIdle
    /\ scen = "off"
    /\ walk = WalkIdle
    /\ par = ParIdle

NextResolve ==
    /\ \/ \E c \in UpCommits : UpstreamMove(c)
       \/ Checkout
       \/ \E reference \in References : RevFor(reference)
       \/ \E expr \in {"HEAD", "v1", "zz"} : HasRef(expr)
    /\ UNCHANGED scen

SpecResolve == InitResolve /\ [][NextResolve]_vars

(***************************************************************************)
(* The update scenario: from an empty cache path and an empty destination, *)
(* checkout, resolve Branch(master), copy_to the result; U's master moves; *)
(* checkout, resolve, copy_to again. scen names the last step of it that   *)
(* the calls have completed, "off" once they depart from it or the         *)
(* environment fails a step.                                               *)
(***************************************************************************)
Stage(from, to, ok) == IF scen = from /\ ok THEN to ELSE "off"
Unfailed == ~last'.injected

InitUpdate ==
    /\ upstream \in UpCommits
    /\ cache = Absent
    /\ dest = Absent
    /\ last = NoCall
    /\ auth = AuthIdle
    /\ scen = "start"
    /\ walk = WalkIdle
    /\ par = ParIdle

NextUpdate ==
    \/ \E c \in UpCommits :
          UpstreamMove(c) /\ scen' = Stage("copied1", "moved", TRUE)
    \/ /\ Checkout
       /\ scen' = IF scen = "start" THEN Stage("start", "cloned", Unfailed)
                  ELSE Stage("moved", "fetched", Unfailed)
    \/ \E reference \in {Branch("master"), Tag("v1")} :
          /\ RevFor(reference)
          /\ scen' = IF scen = "cloned"
                     THEN Stage("cloned", "resolved1", reference = Branch("master"))
                     ELSE Stage("fetched", "resolved2", reference = Branch("master"))
    \/ \E revision \in Revisions :
          /\ CopyTo(revision)
          /\ scen' = IF scen = "resolved1"
                     THEN Stage("resolved1", "copied1",
                                Unfailed /\ last.res = Ok(revision))
                     ELSE Stage("resolved2", "copied2",
                                Unfailed /\ last.res = Ok(revision))

SpecUpdate == InitUpdate /\ [][NextUpdate]_vars

(***************************************************************************)
(* Properties of copy_to                                                   *)
(***************************************************************************)
Range(seq) == {seq[i] : i \in DOMAIN seq}
Took(lvl, ev) == St(lvl, ev) \in Range(last.steps)
CopyReturned == last.op = "copy_to"
CopyOk == CopyReturned /\ last.failed = "none"
\* a revision in the sense of the data model: the id of a commit
IsCommitRevision(rev) == rev \in Commits

RECURSIVE SubmodulesSynced(_)
SubmodulesSynced(repo) ==
    \A i \in DOMAIN SubDecl(repo.head) :
        LET child == SubDecl(repo.head)[i] IN
        child.head # NoOid =>
            /\ repo.sub.kind = "repo"
            /\ repo.sub.head = child.head
            /\ SubmodulesSynced(repo.sub)

\* C2: whenever copy_to returns Ok, every submodule of the resulting tree
\* that has a recorded head is checked out at that head, and so are the
\* submodules of each such submodule, at every depth.
C2_SubmodulesSyncedAtEveryDepth == CopyOk => SubmodulesSynced(dest)

TookBefore(a, b) ==
    \E i, j \in DOMAIN last.steps :
        i < j /\ last.steps[i] = St(0, a) /\ last.steps[j] = St(0, b)

\* C4: the update scenario. From an empty cache path and an empty
\* destination the first checkout clones, Branch(master) resolves to U's
\* master R1 and copy_to leaves the destination at R1; after U's master
\* moves to R2 the second checkout fetches (no clone), Branch(master)
\* resolves to R2, and copy_to takes the destination to R2 by a fetch
\* followed by a reset, without removing or cloning it.
C4_UpdateScenario ==
    /\ scen = "cloned" =>
          /\ last.failed = "none" /\ CanOpen(cache)
          /\ Took(0, "open_err") /\ Took(0, "init")
    /\ scen = "resolved1" => last.res = Ok(upstream)
    /\ scen = "copied1" =>
          last.failed = "none" /\ last.arg = upstream /\ dest.head = upstream
    /\ scen = "moved" => dest.head # upstream
    /\ scen = "fetched" =>
          /\ last.failed = "none" /\ CanOpen(cache)
          /\ Took(0, "open_ok") /\ Took(0, "fetch")
          /\ ~Took(0, "rmdir") /\ ~Took(0, "mkdir") /\ ~Took(0, "init")
    /\ scen = "resolved2" => last.res = Ok(upstream)
    /\ scen = "copied2" =>
          /\ last.failed = "none" /\ last.arg = upstream /\ dest.head = upstream
          /\ Took(0, "stale") /\ TookBefore("fetch", "reset")
          /\ ~Took(0, "rmdir") /\ ~Took(0, "clone")

\* C4's witness: the whole scenario has run.
C4_Witness == scen = "copied2" /\ dest.head = upstream

(***************************************************************************)
(* Properties of reference resolution (SpecResolve)                        *)
(***************************************************************************)
ResolveStep ==
    \/ \E reference \in References : RevFor(reference)
    \/ \E expr \in {"HEAD", "v1", "zz"} : HasRef(expr)
Resolved(path, reference) == GitRemote_rev_for(path, reference).res

\* C5: a resolution (rev_for, has_ref, db_at) makes no network operation
\* and leaves the cache path as it was; and every step that is not a
\* checkout, a move of U's master included, leaves the result of resolving
\* each reference what it was.
C5_ResolutionReadsOnly ==
    [][/\ ResolveStep => (cache' = cache /\ last'.net = <<>>)
       /\ ~Checkout =>
             \A reference \in References :
                 Resolved(cache', reference) = Resolved(cache, reference)]_vars

\* C5's witness: Branch(master) resolved twice in a row to a revision that
\* is no longer U's master.
C5_Witness ==
    /\ last.op = "rev_for" /\ last.arg = Branch("master") /\ last.repeat
    /\ last.res.ok /\ last.res.val # upstream

\* C6: resolving the name of a tag the database has returns a commit: the
\* commit an annotated tag ultimately points at, or the commit a
\* lightweight tag points at.
C6_EveryTagResolvesToItsCommit ==
    (/\ last.op = "rev_for" /\ last.arg.t = "Tag"
     /\ CanOpen(cache) /\ last.arg.s \in DOMAIN cache.tags)
    => (/\ last.res.ok
        /\ last.res.val \in Commits
        /\ last.res.val = Peel(cache.tags[last.arg.s]))

Names(frame) == Range(frame.msg)
MissingIn(repo, reference) ==
    \/ reference.t = "Tag" /\ reference.s \notin DOMAIN repo.tags
    \/ reference.t = "Branch" /\ ~(reference.s = "master" /\ repo.master # NoOid)

\* C7: resolving a tag or branch name that the database does not have
\* returns no revision but an error whose outermost frame is user-facing
\* and contains that name, and leaves the database as it was.
C7_MissingNameIsNamed ==
    [][\A reference \in References :
          (RevFor(reference) /\ CanOpen(cache) /\ MissingIn(cache, reference))
          => (/\ ~last'.res.ok
              /\ last'.res.err[1].class = "human"
              /\ reference.s \in Names(last'.res.err[1])
              /\ cache' = cache)]_vars

\* C7's witness: a missing branch name was resolved and named in the error.
C7_Witness ==
    /\ last.op = "rev_for" /\ last.arg = Branch("nope") /\ CanOpen(cache)
    /\ ~last.res.ok
    /\ "nope" \in Names(last.res.err[1])

(***************************************************************************)
(* with_authentication (lines 344-391). One call runs f, during which the  *)
(* transport calls the credentials closure once per challenge; when f      *)
(* returns, the Result is rewritten if the last closure call failed.       *)
(***************************************************************************)
CredTypes == {"SSH_KEY", "USER_PASS_PLAINTEXT", "DEFAULT", "SSH_CUSTOM"}
NoUser == ""
AuthFailure == human(<<"Failed to authenticate when downloading repository">>)

\* the user name for the ssh agent: the callback's, else git's configured
\* one (cred_helper.username), else "git"
ssh_user(username, configured) ==
    IF username # NoUser THEN username
    ELSE IF configured # NoUser THEN configured
    ELSE "git"

\* a closure that asks the credential helper before the ssh agent
credentials_helper_first(allowed, username, configured, agent, helper) ==
    IF "USER_PASS_PLAINTEXT" \in allowed
    THEN [consulted |-> {"helper"}, user |-> username,
          creds |-> IF helper THEN Ok("userpass") ELSE Err(<<GitErr("credential helper")>>)]
    ELSE IF "SSH_KEY" \in allowed
    THEN [consulted |-> {"ssh_agent"}, user |-> ssh_user(username, configured),
          creds |-> IF agent THEN Ok("ssh_key") ELSE Err(<<GitErr("ssh agent")>>)]
    ELSE IF "DEFAULT" \in allowed
    THEN [consulted |-> {"default"}, user |-> username, creds |-> Ok("default")]
    ELSE [consulted |-> {}, user |-> username,
          creds |-> Err(<<GitErr("no authentication available")>>)]

\* the closure's choice of a credential (lines 369-380): agent and helper
\* tell whether the ssh agent and the credential helper can supply one
credentials(allowed, username, configured, agent, helper) ==
    IF "SSH_KEY" \in allowed
    THEN [consulted |-> {"ssh_agent"}, user |-> ssh_user(username, configured),
          creds |-> IF agent THEN Ok("ssh_key") ELSE Err(<<GitErr("ssh agent")>>)]
    ELSE IF "USER_PASS_PLAINTEXT" \in allowed
    THEN [consulted |-> {"helper"}, user |-> username,
          creds |-> IF helper THEN Ok("userpass") ELSE Err(<<GitErr("credential helper")>>)]
    ELSE IF "DEFAULT" \in allowed
    THEN [consulted |-> {"default"}, user |-> username, creds |-> Ok("default")]
    ELSE [consulted |-> {}, user |-> username,
          creds |-> Err(<<GitErr("no authentication available")>>)]

\* lines 384-390: what with_authentication returns for f's Result
authenticated(cred_error, ret) ==
    IF cred_error
    THEN (IF ret.ok THEN ret ELSE Err(chain_error(AuthFailure, ret.err)))
    ELSE ret

\* lines 365-367: a call starts with its own locals
AuthBegin ==
    /\ auth.pc \in {"idle", "done"}
    /\ auth' = [pc |-> "running", n |-> 0, cred_error |-> FALSE, allowed |-> {},
                consulted |-> {}, user |-> NoUser, creds |-> Ok("none"), cause |-> "none",
                out |-> Ok("none")]
    /\ UNCHANGED <<upstream, cache, dest, last, scen, walk, par>>

\* lines 368-383: the transport raises a challenge (the first, or one more
\* after it rejected the credential it was given)
Challenge(allowed, username, configured, agent, helper) ==
    /\ auth.pc = "running"
    /\ auth.n < MaxChallenges
    /\ auth.creds.ok
    /\ LET c == credentials(allowed, username, configured, agent, helper) IN
       auth' = [auth EXCEPT !.n = @ + 1, !.allowed = allowed,
                            !.consulted = c.consulted, !.user = c.user,
                            !.creds = c.creds,
                            !.cred_error = ~c.creds.ok]
    /\ UNCHANGED <<upstream, cache, dest, last, scen, walk, par>>

\* f returns: with the closure's error if the closure failed; otherwise
\* with success, with the transport's refusal of the last credential, or
\* with a failure that has nothing to do with credentials
Return(outcome) ==
    /\ auth.pc = "running"
    /\ outcome = "cred" <=> ~auth.creds.ok
    /\ outcome = "rejected" => auth.n > 0
    /\ LET ret == CASE outcome = "ok" -> Ok("fetched")
                    [] outcome = "cred" -> Err(auth.creds.err)
                    [] outcome = "rejected" -> Err(<<GitErr("authentication rejected")>>)
                    [] OTHER -> Err(<<GitErr("transport")>>)
       IN auth' = [auth EXCEPT !.pc = "done", !.cause = outcome,
                               !.out = authenticated(auth.cred_error, ret)]
    /\ UNCHANGED <<upstream, cache, dest, last, scen, walk, par>>

InitAuth ==
    /\ upstream = "c1"
    /\ cache = Absent
    /\ dest = Absent
    /\ last = NoCall
    /\ scen = "off"
    /\ walk = WalkIdle
    /\ par = ParIdle
    /\ auth = AuthIdle

NextAuth ==
    \/ AuthBegin
    \/ \E allowed \in SUBSET CredTypes, username \in {NoUser, "alice"},
          configured \in {NoUser, "bob"}, agent \in BOOLEAN, helper \in BOOLEAN :
          Challenge(allowed, username, configured, agent, helper)
    \/ \E outcome \in {"ok", "cred", "rejected", "other"} : Return(outcome)

SpecAuth == InitAuth /\ [][NextAuth]_vars

(***************************************************************************)
(* Properties of the authentication negotiator                             *)
(***************************************************************************)
Challenged == auth.pc # "idle" /\ auth.n > 0

\* C8: at every challenge the closure consults exactly one source of
\* credentials, by priority: the ssh agent if SSH_KEY is allowed, else the
\* credential helper if USER_PASS_PLAINTEXT is allowed, else the default
\* credential if DEFAULT is allowed, else none, failing with "no
\* authentication available"; with only DEFAULT allowed it succeeds with
\* the default credential and consults neither the agent nor the helper.
C8_OneCredentialByPriority ==
    Challenged =>
        LET A == auth.allowed IN
        /\ "SSH_KEY" \in A => auth.consulted = {"ssh_agent"}
        /\ ("SSH_KEY" \notin A /\ "USER_PASS_PLAINTEXT" \in A) =>
              auth.consulted = {"helper"}
        /\ ("SSH_KEY" \notin A /\ "USER_PASS_PLAINTEXT" \notin A /\ "DEFAULT" \in A) =>
              auth.consulted = {"default"} /\ auth.creds = Ok("default")
        /\ A \cap {"SSH_KEY", "USER_PASS_PLAINTEXT", "DEFAULT"} = {} =>
              /\ auth.consulted = {}
              /\ auth.creds = Err(<<GitErr("no authentication available")>>)
        /\ A = {"DEFAULT"} =>
              auth.creds = Ok("default") /\ auth.consulted = {"default"}

\* C8's witness: a challenge that allowed only DEFAULT got the default credential.
C8_Witness ==
    Challenged /\ auth.allowed = {"DEFAULT"} /\ auth.creds = Ok("default")

\* C9: an operation that fails over authentication, because no credential
\* could be produced or because the transport rejected the one produced,
\* returns an error whose outermost frame is the user-facing "Failed to
\* authenticate" message; and an operation that succeeds returns Ok.
C9_AuthFailuresNormalized ==
    auth.pc = "done" =>
        /\ auth.cause \in {"cred", "rejected"} =>
              ~auth.out.ok /\ auth.out.err[1] = AuthFailure
        /\ auth.cause = "ok" => auth.out.ok

\* C10: every operation of checkout, copy_to and submodule synchronization
\* that contacts a remote URL (the database's clone and fetch, the
\* checkout's fetch, a submodule's clone and fetch) runs inside
\* with_authentication, and a with_authentication call starts with no
\* state of an earlier one.
ContactsRemote(n) == n.on \in {"db", "submodule"} \/ (n.on = "checkout" /\ n.op = "fetch")
C10_EveryNetworkOperationAuthenticated ==
    /\ \A i \in DOMAIN last.net : ContactsRemote(last.net[i]) => last.net[i].auth
    /\ (auth.pc = "running" /\ auth.n = 0) => ~auth.cred_error

(***************************************************************************)
(* Properties of copy_to's repair of a stale checkout                      *)
(***************************************************************************)
\* the revisions that resolution on the database returns, under any reference
ResolvedBy(db) ==
    {rev_for(db, reference).val :
        reference \in {r \in References : rev_for(db, r).ok}}

\* C11: in the branch of copy_to for a destination that opens and is not
\* fresh, for every revision that rev_for returns on the database under a
\* Tag, a Branch or a Rev reference (Rev naming any object), once the fetch
\* and the reset have succeeded the checkout is fresh: the assertion
\* assert!(checkout.is_fresh()) does not fail.
C11_AssertionNeverFails ==
    (/\ CopyReturned
     /\ Took(0, "assert")
     /\ last.arg \in ResolvedBy(cache))
    => last.failed # "assert"

(***************************************************************************)
(* Properties of a call made again after a failed one                      *)
(***************************************************************************)
\* the last call repeats a call that the environment failed, and the
\* environment fails no step of it
Retried(op) == last.op = op /\ last.retry /\ ~last.injected

\* C12: when a checkout or a copy_to was aborted by a failure of one of its
\* steps (rmdir, mkdir, init, clone, fetch, reset, or a step of submodule
\* synchronization at any depth) and would have returned Ok otherwise, the
\* same call made again on what the failed one left, with no failure, ends
\* as the unfailed call: checkout returns Ok with a repository at the cache
\* path that holds U's master, copy_to returns Ok with the destination's
\* HEAD at the commit revision and every submodule synchronized at every
\* depth.
RetryOutcome ==
    /\ Retried("checkout") =>
          /\ last.failed = "none"
          /\ CanOpen(cache) /\ cache.master = upstream
    /\ (Retried("copy_to") /\ IsCommitRevision(last.arg)) =>
          /\ last.failed = "none"
          /\ CanOpen(dest) /\ dest.head = last.arg
          /\ SubmodulesSynced(dest)
C12_RetryEndsAsUnfailed == [][last' # last => RetryOutcome']_vars

(***************************************************************************)
(* Properties of GitRemote::checkout                                       *)
(***************************************************************************)
\* how many times the steps of a call attempt step ev at level 0
Attempts(steps, ev) == Cardinality({i \in DOMAIN steps : steps[i] = St(0, ev)})
\* in steps, every step a comes before every step b
Precedes(steps, a, b) ==
    \A i, j \in DOMAIN steps :
        (steps[i] = St(0, a) /\ steps[j] = St(0, b)) => i < j

\* C13: checkout fetches into the path exactly when a repository opens
\* there. When it does, the directory is neither removed nor created nor
\* initialised, the fetch is attempted once, and a failed fetch is returned
\* as an error with the repository left as it was, no clone being tried.
\* When no repository opens, what the path holds is removed before the bare
\* repository is created and initialised, and the fetch follows. A
\* checkout that returns Ok leaves a repository at the path that holds U's
\* master.
C13_CheckoutFetchesOrClones ==
    [][(last' # last /\ last'.op = "checkout") =>
          LET steps == last'.steps
              took(ev) == Attempts(steps, ev) > 0
              cloned == took("rmdir") \/ took("mkdir") \/ took("init")
          IN  /\ CanOpen(cache) <=> (took("fetch") /\ ~cloned)
              /\ cloned <=> ~CanOpen(cache)
              /\ Attempts(steps, "fetch") <= 1 /\ Len(last'.net) <= 1
              /\ CanOpen(cache) =>
                    /\ steps = <<St(0, "open_ok"), St(0, "fetch")>>
                    /\ CanOpen(cache')
                    /\ last'.failed # "none" =>
                          /\ cache' = cache
                          /\ last'.err # <<>>
                          /\ last'.err[1] = internal(<<"failed to fetch into ", "cache">>)
              /\ ~CanOpen(cache) =>
                    /\ cache.kind # "absent" => took("rmdir")
                    /\ Precedes(steps, "rmdir", "mkdir")
                    /\ Precedes(steps, "mkdir", "init")
                    /\ Precedes(steps, "init", "fetch")
                    /\ last'.failed = "none" => (took("init") /\ took("fetch"))
                    /\ last'.failed # "none" =>
                          last'.err[1] = internal(<<"failed to clone into: ", "cache">>)
              /\ last'.failed = "none" =>
                    /\ CanOpen(cache') /\ cache'.master = upstream
                    /\ upstream \in cache'.objs]_vars

\* C13's witness: a checkout of a path that held a repository failed at its
\* fetch and left the repository, with no clone.
C13_Witness ==
    /\ last.op = "checkout" /\ last.failed = "fetch" /\ last.injected
    /\ Took(0, "open_ok") /\ ~Took(0, "init") /\ ~Took(0, "rmdir")
    /\ CanOpen(cache) /\ cache.master # NoOid

(***************************************************************************)
(* Order of the steps of copy_to                                           *)
(***************************************************************************)
\* the last call started to synchronize the checkout's submodules
SyncStarted == Took(1, "submodules")
\* the last call failed at a step of the parent checkout
ParentFailed ==
    /\ last.failed # "none"
    /\ last.steps # <<>>
    /\ last.steps[Len(last.steps)].lvl = 0

NetOps(call, url) ==
    LET sel == SelectSeq(call.net, LAMBDA n : n.on = "submodule" /\ n.url = url)
    IN  [i \in DOMAIN sel |-> sel[i].op]
StepsAt(call, lvl) == {s.ev : s \in {t \in Range(call.steps) : t.lvl = lvl}}
\* the entry is one to leave alone: no recorded head, or a working copy
\* that opens with its head at the recorded commit
Inert(child, dir) ==
    \/ child.head = NoOid
    \/ dir.kind = "repo" /\ dir.head # NoOid /\ dir.head = child.head

\* what a call in which the environment fails no step does for the entry
\* child at depth lvl, whose directory held dir before and holds post after
EntryRule(call, lvl, child, dir, post) ==
    LET opens == dir.kind = "repo" /\ dir.head # NoOid
        at == StepsAt(call, lvl)
    IN
    /\ child.head = NoOid => NetOps(call, child.url) = <<>>
    /\ (child.head # NoOid /\ Inert(child, dir)) =>
          /\ at \cap {"clone", "reuse", "fetch", "reset", "recurse"} = {}
          /\ StepsAt(call, lvl + 1) = {}
          /\ NetOps(call, child.url) = <<>>
          /\ post = dir
          /\ call.failed = "none"
    /\ ~Inert(child, dir) =>
          /\ "clone" \in at <=> ~opens
          /\ "reuse" \in at <=> opens
          /\ call.failed = "none" =>
                /\ NetOps(call, child.url) =
                      (IF opens THEN <<"fetch">> ELSE <<"clone", "fetch">>)
                /\ {"fetch", "reset", "recurse"} \subseteq at
                /\ "submodules" \in StepsAt(call, lvl + 1)
                /\ post.kind = "repo" /\ post.head = child.head
          /\ \A i, j \in DOMAIN call.steps :
                \/ call.steps[i].lvl # lvl \/ call.steps[j].lvl # lvl
                \/ <<call.steps[i].ev, call.steps[j].ev>> \notin
                      {<<"clone", "fetch">>, <<"reuse", "fetch">>,
                       <<"fetch", "reset">>, <<"reset", "recurse">>}
                \/ i < j
          /\ \A i, j \in DOMAIN call.steps :
                (call.steps[i] = St(lvl, "recurse") /\ call.steps[j].lvl > lvl) => i < j

\* C15: in a copy_to whose steps the environment does not fail, an entry
\* of the checkout's tree, and an entry of the tree of a submodule that was
\* synchronized, causes no clone, fetch, reset or recursion and no error
\* exactly when it has no recorded head or its working copy opens with its
\* head at the recorded commit; for any other entry the submodule's URL is
\* cloned if no working copy opens and the working copy is reused if one
\* does, then the submodule's URL is fetched, the working copy is reset to
\* the recorded commit, and its own submodules are synchronized.
C15_SubmoduleEntryRule ==
    [][(/\ last' # last /\ last'.op = "copy_to" /\ ~last'.injected
        /\ "submodules" \in StepsAt(last', 1)) =>
          LET dir1 == IF CanOpen(dest) THEN dest.sub ELSE Absent
              entries1 == SubDecl(dest'.head)
              dir2 == IF dir1.kind = "repo" /\ dir1.head # NoOid THEN dir1.sub ELSE Absent
          IN  /\ \A i \in DOMAIN entries1 :
                    EntryRule(last', 1, entries1[i], dir1, dest'.sub)
              /\ "submodules" \in StepsAt(last', 2) =>
                    \A j \in DOMAIN SubDecl(dest'.sub.head) :
                        EntryRule(last', 2, SubDecl(dest'.sub.head)[j], dir2,
                                  dest'.sub.sub)]_vars

\* C15's witness: a submodule at another commit than the recorded one was
\* reused, fetched, reset and recursed into, and its own submodule, already
\* at its recorded commit, was left alone.
C15_Witness ==
    /\ CopyOk /\ ~last.injected
    /\ Took(1, "reuse") /\ Took(1, "recurse") /\ Took(2, "same_head")
    /\ SubmodulesSynced(dest)

(***************************************************************************)
(* update_submodules step by step (lines 292-340). A frame is one          *)
(* activation of the inner fn: the commit whose tree declares the entries, *)
(* the index of the entry the for loop is at, and the position in the loop *)
(* body. What the submodule's directory holds and whether a git operation  *)
(* succeeds are the environment's choice at each step.                     *)
(***************************************************************************)
\* a cap on the nesting of activations explored
MaxDepth == 4

Frame(head) == [head |-> head, i |-> 1, at |-> "submodules"]
Top == walk.stack[Len(walk.stack)]
Child == SubDecl(Top.head)[Top.i]
WalkAt(at) == walk.pc = "run" /\ Top.at = at
SetTop(f) == [walk EXCEPT !.stack[Len(walk.stack)] = f]
\* try!: the error unwinds every activation
WalkErr == [pc |-> "err", stack |-> <<>>]
\* continue: the loop goes to its next entry
Continue == SetTop([Top EXCEPT !.i = @ + 1, !.at = "loop"])
Frozen == UNCHANGED <<upstream, cache, dest, last, auth, scen, par>>

\* copy_to reaches line 176 with the checkout at commit c
WalkBegin(c) ==
    /\ walk.pc # "run"
    /\ walk' = [pc |-> "run", stack |-> <<Frame(c)>>]
    /\ Frozen

\* line 295: repo.submodules()
WalkList(ok) ==
    /\ WalkAt("submodules")
    /\ walk' = IF ok THEN SetTop([Top EXCEPT !.at = "loop"]) ELSE WalkErr
    /\ Frozen

\* line 295: the iterator yields the next entry, or the loop ends and the
\* activation returns Ok (line 339) to line 337 of its caller, or to copy_to
WalkLoop ==
    /\ WalkAt("loop")
    /\ walk' =
          IF Top.i <= Len(SubDecl(Top.head)) THEN SetTop([Top EXCEPT !.at = "init"])
          ELSE IF Len(walk.stack) = 1 THEN [pc |-> "ok", stack |-> <<>>]
          ELSE LET rest == SubSeq(walk.stack, 1, Len(walk.stack) - 1)
                   caller == rest[Len(rest)]
               IN  [walk EXCEPT !.stack =
                        [rest EXCEPT ![Len(rest)] =
                            [caller EXCEPT !.i = @ + 1, !.at = "loop"]]]
    /\ Frozen

\* lines 296-306: child.init, child.url, child.head_id
WalkInit(ok) ==
    /\ WalkAt("init")
    /\ walk' = IF ~ok THEN WalkErr
               ELSE IF Child.head = NoOid THEN Continue
               ELSE SetTop([Top EXCEPT !.at = "open"])
    /\ Frozen

\* lines 312-321: the working copy opens at the recorded commit, opens at
\* another commit, or does not open
WalkOpen(local) ==
    /\ WalkAt("open")
    /\ walk' = CASE local = "same" -> Continue
                 [] local = "other" -> SetTop([Top EXCEPT !.at = "fetch"])
                 [] OTHER -> SetTop([Top EXCEPT !.at = "clone"])
    /\ Frozen

\* line 324
WalkClone(ok) ==
    /\ WalkAt("clone")
    /\ walk' = IF ok THEN SetTop([Top EXCEPT !.at = "fetch"]) ELSE WalkErr
    /\ Frozen

\* lines 329-333
WalkFetch(ok) ==
    /\ WalkAt("fetch")
    /\ walk' = IF ok THEN SetTop([Top EXCEPT !.at = "reset"]) ELSE WalkErr
    /\ Frozen

\* lines 335-336
WalkReset(ok) ==
    /\ WalkAt("reset")
    /\ walk' = IF ok THEN SetTop([Top EXCEPT !.at = "recurse"]) ELSE WalkErr
    /\ Frozen

\* line 337: update_submodules(&repo), the submodule now at its recorded commit
WalkRecurse ==
    /\ WalkAt("recurse")
    /\ Len(walk.stack) < MaxDepth
    /\ walk' = [walk EXCEPT !.stack = Append(@, Frame(Child.head))]
    /\ Frozen

WalkStep ==
    \/ \E ok \in BOOLEAN : WalkList(ok)
    \/ WalkLoop
    \/ \E ok \in BOOLEAN : WalkInit(ok)
    \/ \E local \in {"same", "other", "absent"} : WalkOpen(local)
    \/ \E ok \in BOOLEAN : WalkClone(ok)
    \/ \E ok \in BOOLEAN : WalkFetch(ok)
    \/ \E ok \in BOOLEAN : WalkReset(ok)
    \/ WalkRecurse

InitWalk ==
    /\ upstream \in UpCommits
    /\ cache = Absent
    /\ dest = Absent
    /\ last = NoCall
    /\ auth = AuthIdle
    /\ scen = "off"
    /\ walk = WalkIdle
    /\ par = ParIdle

NextWalk ==
    \/ \E c \in UpCommits : WalkBegin(c)
    \/ WalkStep

\* each git operation returns, so a step that can be taken is taken
SpecWalk == InitWalk /\ [][NextWalk]_vars /\ WF_vars(WalkStep)

\* how many levels of submodules with a recorded head the tree of a commit
\* declares, counted down to at most fuel levels
RECURSIVE DeclaredDepth(_, _)
DeclaredDepth(commit, fuel) ==
    LET heads == {SubDecl(commit)[i].head : i \in DOMAIN SubDecl(commit)} \ {NoOid}
        below == {DeclaredDepth(h, fuel - 1) : h \in heads}
    IN  IF fuel = 0 \/ heads = {} THEN 0
        ELSE 1 + CHOOSE d \in below : \A e \in below : e <= d

WalkDepthBounded ==
    walk.pc = "run" =>
        Len(walk.stack) <= DeclaredDepth(walk.stack[1].head, MaxDepth) + 1

\* C16: for the declared submodule graph, in which no submodule refers to
\* an ancestor, the activations of update_submodules are never nested
\* deeper than the graph (one for the checkout and one for each level of
\* submodules below it), and, each git operation returning, a started
\* synchronization returns Ok or an error.
C16_SubmoduleWalkTerminates ==
    /\ []WalkDepthBounded
    /\ (walk.pc = "run") ~> (walk.pc \in {"ok", "err"})

\* C16's witness: the walk is in the innermost activation the graph allows,
\* two levels of submodules below the checkout.
C16_Witness ==
    /\ walk.pc = "run" /\ Len(walk.stack) = 3
    /\ walk.stack[1].head = "c1" /\ walk.stack[3].at = "loop"

(***************************************************************************)
(* What writes to the cache path                                           *)
(***************************************************************************)
\* the call that a step makes, if it makes one
Calls(op) == last' # last /\ last'.op = op

\* C17: a copy_to, whichever branch it takes (clone of the database's path,
\* fetch from the database's path and reset, the fresh branch) and however
\* deep its submodule synchronization goes, whether it returns Ok or an
\* error, leaves the database's refs and objects as they were and runs no
\* operation on the database's repository: the database is only the source
\* of the checkout's clone and fetch. Only a checkout changes what the
\* cache path holds.
C17_CopyToLeavesDatabase ==
    [][/\ Calls("copy_to") =>
             /\ cache' = cache
             /\ \A i \in DOMAIN last'.net :
                   /\ last'.net[i].on \in {"checkout", "submodule"}
                   /\ last'.net[i].url = "file:db" <=> last'.net[i].on = "checkout"
       /\ cache' # cache =>
             (last'.op = "checkout" /\ upstream' = upstream /\ dest' = dest)]_vars

\* C17's witness: a copy_to repaired a stale checkout by a fetch from the
\* database and a reset, and went through the submodules at both depths.
C17_Witness ==
    /\ CopyOk /\ Took(0, "stale") /\ Took(0, "fetch") /\ Took(0, "reset")
    /\ Took(1, "reuse") /\ Took(2, "fetch")
    /\ CanOpen(cache) /\ last.arg \in cache.objs

(***************************************************************************)
(* The database over a sequence of checkouts                               *)
(***************************************************************************)
\* a revision that a resolution returns is an object of the database
ResolvedIsHeld ==
    (last.op = "rev_for" /\ last.res.ok) =>
        (CanOpen(cache) /\ last.res.val \in cache.objs)
\* no step closes a repository at the cache path or takes an object from it
KeepsDatabase ==
    CanOpen(cache) => (CanOpen(cache') /\ cache.objs \subseteq cache'.objs)

\* C18: over any sequence of checkouts of the cache path, resolutions and
\* moves of U's master, with steps of the checkouts failing, a repository
\* at the cache path stays a repository that opens, and every revision a
\* successful resolution returned stays in its object store: a resolution
\* returns an object the database holds, and no step removes the
\* repository or an object from it.
C18_DatabaseOnlyGrows == []ResolvedIsHeld /\ [][KeepsDatabase]_vars

\* C18's witness: after a checkout the database still holds a commit that a
\* forced move of U's master has left unreachable from every ref.
C18_Witness ==
    /\ last.op = "checkout" /\ last.failed = "none" /\ CanOpen(cache)
    /\ "c3" \in cache.objs /\ "c3" \notin RefClosure(cache)

(***************************************************************************)
(* Two calls at once. Two processes each run GitRemote::checkout (lines    *)
(* 111-127, 145-154) or GitDatabase::copy_to (lines 162-180, 233-264) one  *)
(* filesystem operation at a time, on paths A and B. par.fs is what each   *)
(* path holds, par.init what it held when the calls began, par.overlap     *)
(* whether a process has taken a step while the other was in mid-call,     *)
(* par.clobbered whether a call has removed from its path something that   *)
(* was not there when the calls began.                                     *)
(* The environment fails no step here: every failure is the other          *)
(* process's doing.                                                        *)
(***************************************************************************)
Procs == {1, 2}
Other(p) == 3 - p
\* U as it was before its master moved to c2, cloned: what a cache path may hold
OldDb == fetch(EmptyBare, [UpRepo EXCEPT !.master = "c1"])
\* the database that both copy_to calls draw from
ParDb == fetch(EmptyBare, UpRepo)

\* a call whose path argument is the first process's, whatever its own is
Target_shared(p) == par.proc[1].path
\* the path argument of p's call: into (line 111) or dest (line 162)
Target(p) == par.proc[p].path
Held(p) == par.fs[Target(p)]
ParAt(p, pc) == par.pc = "run" /\ par.proc[p].pc = pc
Returned(p) == par.proc[p].pc \in {"ok", "err"}
Mid(p) == par.proc[p].pc \notin {"open", "ok", "err"}
\* p's step leaves content at its path and takes p to pc
Move(p, pc, content) ==
    /\ par' = [par EXCEPT !.proc[p].pc = pc,
                          !.fs[Target(p)] = content,
                          !.overlap = @ \/ Mid(Other(p)),
                          !.clobbered = @ \/ (/\ par.proc[p].pc = "rmdir"
                                              /\ content = Absent
                                              /\ Held(p) # Absent
                                              /\ Held(p) # par.init[Target(p)])]
    /\ UNCHANGED <<upstream, cache, dest, last, auth, scen, walk>>

\* a path test that never finds anything
path_exists_never(content) == FALSE
\* dst.exists() (line 147), into.exists() (line 250)
path_exists(content) == content.kind # "absent"

ParBegin(op, path2, contentA, contentB, rev1, rev2) ==
    /\ par.pc = "idle"
    /\ par' = [pc |-> "run", op |-> op,
               fs |-> [q \in {"A", "B"} |-> IF q = "A" THEN contentA ELSE contentB],
               init |-> [q \in {"A", "B"} |-> IF q = "A" THEN contentA ELSE contentB],
               proc |-> [p \in Procs |->
                           [path |-> IF p = 1 THEN "A" ELSE path2,
                            rev |-> IF p = 1 THEN rev1 ELSE rev2,
                            pc |-> "open"]],
               overlap |-> FALSE, clobbered |-> FALSE]
    /\ UNCHANGED <<upstream, cache, dest, last, auth, scen, walk>>

\* git2::Repository::open (lines 112, 164) and, in copy_to, is_fresh (line 167)
ParOpen(p) ==
    /\ ParAt(p, "open")
    /\ Move(p, IF par.op = "checkout"
               THEN (IF CanOpen(Held(p)) THEN "fetch" ELSE "exists")
               ELSE (IF ~CanOpen(Held(p)) THEN "mkparent"
                     ELSE IF is_fresh(Held(p), par.proc[p].rev) THEN "submodules"
                     ELSE "cfetch"),
            Held(p))

\* dst.exists() (line 147), into.exists() (line 250)
ParExists(p) ==
    /\ ParAt(p, "exists")
    /\ Move(p, IF path_exists(Held(p)) THEN "rmdir"
               ELSE IF par.op = "checkout" THEN "mkdir" ELSE "clone",
            Held(p))

\* rmdir_recursive (lines 148, 251): fails on a path that is not there
ParRmdir(p) ==
    /\ ParAt(p, "rmdir")
    /\ IF Held(p).kind = "absent" THEN Move(p, "err", Held(p))
       ELSE Move(p, IF par.op = "checkout" THEN "mkdir" ELSE "clone", Absent)

\* mkdir_recursive(dst) (line 150): creates the directory unless it is there
ParMkdir(p) ==
    /\ ParAt(p, "mkdir")
    /\ Move(p, "init", IF Held(p).kind = "absent" THEN Junk ELSE Held(p))

\* git2::Repository::init_bare (line 151): a repository that is there is reopened
ParInit(p) ==
    /\ ParAt(p, "init")
    /\ Move(p, "fetch", IF CanOpen(Held(p)) THEN Held(p) ELSE EmptyBare)

\* fetch from U into the repository at the path (lines 114, 152)
ParFetch(p) ==
    /\ ParAt(p, "fetch")
    /\ IF CanOpen(Held(p)) THEN Move(p, "ok", fetch(Held(p), UpRepo))
       ELSE Move(p, "err", Held(p))

\* mkdir_recursive(into.dir_path()) (line 246): the parent of the path
ParMkparent(p) ==
    /\ ParAt(p, "mkparent")
    /\ Move(p, "exists", Held(p))

\* git2::Repository::clone (line 258): refuses a path that is there
ParClone(p) ==
    /\ ParAt(p, "clone")
    /\ IF Held(p).kind = "absent"
       THEN Move(p, "reset_clone", clone_repo(ParDb, Absent, NoFail).fs)
       ELSE Move(p, "err", Held(p))

\* GitCheckout::fetch (line 168)
ParCheckoutFetch(p) ==
    /\ ParAt(p, "cfetch")
    /\ IF CanOpen(Held(p))
       THEN Move(p, "reset_stale", GitCheckout_fetch(Held(p), ParDb, NoFail).fs)
       ELSE Move(p, "err", Held(p))

\* GitCheckout::reset (lines 169, 239)
ParReset(p) ==
    /\ par.pc = "run" /\ par.proc[p].pc \in {"reset_stale", "reset_clone"}
    /\ LET r == reset(Held(p), par.proc[p].rev, NoFail) IN
       IF CanOpen(Held(p)) /\ r.failed = "none"
       THEN Move(p, IF par.proc[p].pc = "reset_stale" THEN "assert" ELSE "submodules", r.fs)
       ELSE Move(p, "err", Held(p))

\* assert!(checkout.is_fresh()) (line 170)
ParAssert(p) ==
    /\ ParAt(p, "assert")
    /\ Move(p, IF CanOpen(Held(p)) /\ is_fresh(Held(p), par.proc[p].rev)
               THEN "submodules" ELSE "err",
            Held(p))

\* checkout.update_submodules() (line 176), as one step
ParSubmodules(p) ==
    /\ ParAt(p, "submodules")
    /\ LET s == update_submodules(Held(p), 1, NoFail) IN
       IF CanOpen(Held(p)) /\ s.failed = "none" THEN Move(p, "ok", s.fs)
       ELSE Move(p, "err", IF CanOpen(Held(p)) THEN s.fs ELSE Held(p))

InitPar ==
    /\ upstream = "c2"
    /\ cache = Absent
    /\ dest = Absent
    /\ last = NoCall
    /\ auth = AuthIdle
    /\ scen = "off"
    /\ walk = WalkIdle
    /\ par = ParIdle

NextPar ==
    \/ \E path2 \in {"A", "B"}, contentA, contentB \in {Absent, Junk, OldDb} :
          ParBegin("checkout", path2, contentA, contentB, NoOid, NoOid)
    \/ \E path2 \in {"A", "B"}, rev1, rev2 \in {"c1", "c2"},
          contentA, contentB \in {Absent, Junk, WorkRepo("x", {}, Absent)} :
          ParBegin("copy_to", path2, contentA, contentB, rev1, rev2)
    \/ \E p \in Procs :
          \/ ParOpen(p)
          \/ ParExists(p)
          \/ ParRmdir(p)
          \/ ParMkdir(p)
          \/ ParInit(p)
          \/ ParFetch(p)
          \/ ParMkparent(p)
          \/ ParClone(p)
          \/ ParCheckoutFetch(p)
          \/ ParReset(p)
          \/ ParAssert(p)
          \/ ParSubmodules(p)

SpecPar == InitPar /\ [][NextPar]_vars

(***************************************************************************)
(* Properties of two calls at once                                         *)
(***************************************************************************)
BothReturned == par.pc = "run" /\ \A p \in Procs : Returned(p)
SamePath == par.proc[1].path = par.proc[2].path
\* what the path of p's call holds after the call, made alone and whole
Alone(p) ==
    IF par.op = "checkout" THEN checkout(par.init[par.proc[p].path], NoFail)
    ELSE copy_to(ParDb, par.proc[p].rev, par.init[par.proc[p].path], NoFail)

\* C19: two copy_to calls on distinct destinations drawing from one
\* database, and two checkout calls on distinct cache paths, end, however
\* their steps interleave, each with the result and the path contents of
\* the call made alone; and a step of one never changes the other's path.
C19_DistinctPathsIndependent ==
    (par.pc = "run" /\ ~SamePath) =>
        /\ \A p \in Procs :
              /\ par.proc[p].pc = "open" => par.fs[par.proc[p].path] = par.init[par.proc[p].path]
              /\ Returned(p) =>
                    /\ par.proc[p].pc = "ok" <=> Alone(p).failed = "none"
                    /\ par.fs[par.proc[p].path] = Alone(p).fs

\* C19's witness: two copy_to calls on distinct destinations have both
\* returned after taking their steps in turns.
C19_Witness ==
    /\ BothReturned /\ ~SamePath /\ par.overlap /\ par.op = "copy_to"
    /\ \A p \in Procs : par.proc[p].pc = "ok" /\ par.fs[par.proc[p].path].head = par.proc[p].rev


\* the repository a call leaves when it returns Ok: for checkout one that
\* holds U's master, for copy_to one whose HEAD is born
Complete(content) ==
    /\ CanOpen(content)
    /\ IF par.op = "checkout" THEN content.master = upstream ELSE content.head # NoOid
NoRepoAtStart(p) == ~CanOpen(par.init[par.proc[p].path])

\* C20: two checkout calls, or two copy_to calls, on one path that holds no
\* repository race. A call fails only when it and the other call work on
\* the same path and their steps have interleaved: taken one after the
\* other, both calls return Ok and the path holds a complete repository.
\* (That an interleaving in which one call removes what the other has
\* created makes a call fail is shown by the witness.)
C20_OnlyInterleavedClonesFail ==
    par.pc = "run" =>
        /\ \A p \in Procs : par.proc[p].pc = "err" => (SamePath /\ par.overlap)
        /\ par.clobbered => (SamePath /\ par.overlap)
        /\ (BothReturned /\ ~par.overlap) =>
              \A p \in Procs : par.proc[p].pc = "ok" /\ Complete(par.fs[par.proc[p].path])

\* C20's witness: on one path that held no repository, the second call
\* removed what the first had created there, and the first call failed.
C20_Witness ==
    /\ BothReturned /\ SamePath /\ par.overlap /\ par.clobbered
    /\ NoRepoAtStart(1)
    /\ par.proc[1].pc = "err" /\ par.proc[2].pc = "ok"
    /\ Complete(par.fs[par.proc[2].path])

====
